---- MODULE Spec2Model ----
(***************************************************************************)
(* Master Budgeting System (Dummy1.py, module "2. Master Budget").        *)
(*                                                                         *)
(* The Streamlit script is re-executed from top to bottom after every      *)
(* user interaction.  The state is the widget state (uploaders, slider,    *)
(* number inputs, data editors)     *)
(* and st.session_state.  Every action below is one user interaction       *)
(* followed by the complete rerun of the script (operator Rerun).          *)
(*                                                                         *)
(* Numbers: a DataFrame cell is modelled as an exact rational <<n, d>>     *)
(* with d > 0; the missing value NaN is <<0, 0>>.  Floating point rounding *)
(* is not modelled.                                                        *)
(***************************************************************************)
EXTENDS Integers, Sequences, FiniteSets, TLC

VARIABLES selected_module, uploaded_sales, cash_pct, lag_input, uploaded_inv,
          edited_bom, labor_editor, var_oh, fix_oh, session_state

vars == <<selected_module, uploaded_sales, cash_pct, lag_input, uploaded_inv,
          edited_bom, labor_editor, var_oh, fix_oh, session_state>>

\* ------------------------------------------------------------------------
\* Bounds of the model
\* ------------------------------------------------------------------------
\* largest number of lag buckets the "Add Month" button is pressed up to
MaxLags == 2
\* number of forecast months in the generated single-product forecasts
MaxMonths == 3

\* ------------------------------------------------------------------------
\* Cell arithmetic (pandas float columns)
\* ------------------------------------------------------------------------
NaN == <<0, 0>>

IsNaN(x) == x[2] = 0

Abs(i) == IF i < 0 THEN -i ELSE i

RECURSIVE GCD(_, _)
GCD(a, b) == IF b = 0 THEN a ELSE GCD(b, a % b)

\* the rational n/d in lowest terms (d > 0)
Num(n, d) == LET g == GCD(Abs(n), d) IN <<n \div g, d \div g>>

Whole(i) == <<i, 1>>

Add(a, b) == IF IsNaN(a) \/ IsNaN(b) THEN NaN
             ELSE Num(a[1] * b[2] + b[1] * a[2], a[2] * b[2])

Sub(a, b) == IF IsNaN(a) \/ IsNaN(b) THEN NaN
             ELSE Num(a[1] * b[2] - b[1] * a[2], a[2] * b[2])

Mul(a, b) == IF IsNaN(a) \/ IsNaN(b) THEN NaN
             ELSE Num(a[1] * b[1], a[2] * b[2])

\* Series.fillna(0)
fillna0(x) == IF IsNaN(x) THEN Whole(0) ELSE x

\* Series.sum(): missing values are skipped, the empty sum is 0
RECURSIVE SumSeq(_)
SumSeq(s) == IF s = <<>> THEN Whole(0)
             ELSE Add(fillna0(Head(s)), SumSeq(Tail(s)))

\* ------------------------------------------------------------------------
\* Sequence helpers (DataFrames are sequences of records, in row order)
\* ------------------------------------------------------------------------
Column(df, c) == [i \in 1..Len(df) |-> df[i][c]]

\* a table computed row by row
Map(df, F(_)) == [i \in 1..Len(df) |-> F(df[i])]

RECURSIVE Flatten(_)
Flatten(ss) == IF ss = <<>> THEN <<>> ELSE Head(ss) \o Flatten(Tail(ss))

AppendNew(front, x) ==
    IF \E i \in 1..Len(front) : front[i] = x THEN front ELSE Append(front, x)

\* Series.unique(): distinct values in order of first appearance
RECURSIVE Unique(_)
Unique(s) ==
    IF s = <<>> THEN <<>>
    ELSE AppendNew(Unique(SubSeq(s, 1, Len(s) - 1)), s[Len(s)])

\* the rows of right that agree with the row l on the key columns
Matches(l, right, keys) ==
    LET Same(r) == \A k \in keys : r[k] = l[k] IN SelectSeq(right, Same)

\* the rows a join makes of the left row l and its matches m
JoinInner(l, m) == [j \in 1..Len(m) |-> m[j] @@ l]

JoinLeft(l, m, nomatch) == IF m = <<>> THEN <<nomatch @@ l>> ELSE JoinInner(l, m)

\* pd.merge(left, right, on=keys, how='left'): every left row, in left order,
\* joined with each matching right row (in right order); a left row without a
\* match is kept once with the right-hand columns missing (the record nomatch)
LeftMerge(left, right, keys, nomatch) ==
    Flatten([i \in 1..Len(left) |->
                JoinLeft(left[i], Matches(left[i], right, keys), nomatch)])

\* pd.merge(left, right, on=keys) (inner): unmatched left rows are dropped
InnerMerge(left, right, keys) ==
    Flatten([i \in 1..Len(left) |->
                JoinInner(left[i], Matches(left[i], right, keys))])

\* ------------------------------------------------------------------------
\* Session state (a function from the keys present to their values)
\* ------------------------------------------------------------------------
EmptySession == [k \in {} |-> <<>>]

Has(s, k) == k \in DOMAIN s

Put(s, k, v) == (k :> v) @@ s

\* ------------------------------------------------------------------------
\* Helper: clean_currency_columns (numeric coercion with fillna(0); the cells
\* of an uploaded table are already parsed numbers or missing)
\* ------------------------------------------------------------------------
clean_currency_columns(df, numeric_cols) ==
    [i \in 1..Len(df) |->
        [c \in DOMAIN df[i] |->
            IF c \in numeric_cols THEN fillna0(df[i][c]) ELSE df[i][c]]]

\* ------------------------------------------------------------------------
\* Step 1: Sales budget and collections
\* ------------------------------------------------------------------------
\* Remove pressed without the test num_lags > 1
PressedUnguarded(n, btn) ==
    IF btn = "add" THEN n + 1
    ELSE IF btn = "remove" THEN n - 1
    ELSE n

\* num_lags as the Add Month and Remove buttons leave it
Pressed(n, btn) ==
    IF btn = "add" THEN n + 1
    ELSE IF btn = "remove" /\ n > 1 THEN n - 1
    ELSE n

\* the session after the initialisation of num_lags and the two buttons
NumLags(s, cash, btn) ==
    IF cash < 100
    THEN Put(s, "num_lags", Pressed(IF Has(s, "num_lags") THEN s.num_lags ELSE 1, btn))
    ELSE s

\* the number inputs rendered in this run: one per lag bucket, a newly
\* rendered input shows its default 0, an input not rendered loses its value
RenderLagInputs(s, cash, lags) ==
    IF cash < 100
    THEN [i \in 1..s.num_lags |-> IF i <= Len(lags) THEN lags[i] ELSE 0]
    ELSE <<>>

\* credit_config: one dictionary per rendered input
CreditConfig(cash, lags) ==
    IF cash < 100
    THEN [i \in 1..Len(lags) |-> [month_lag |-> i, pct |-> lags[i]]]
    ELSE <<>>

RECURSIVE SumInts(_)
SumInts(s) == IF s = <<>> THEN 0 ELSE Head(s) + SumInts(Tail(s))

\* current_sum of the validation
CurrentSum(cash, config) == cash + SumInts(Column(config, "pct"))

\* the validation without its error branch
VerdictWithoutError(total) == IF total < 100 THEN "warning" ELSE "success"

Verdict(total) ==
    IF total < 100 THEN "warning" ELSE IF total > 100 THEN "error" ELSE "success"

\* the validation message shown under the inputs ("none": nothing is shown)
Validation(cash, config) ==
    IF cash < 100 THEN Verdict(CurrentSum(cash, config)) ELSE "none"

WithRevenue(r) == r @@ [Total_Revenue |-> Mul(r.Sales_Units, r.Selling_Price)]

\* df_sales: the cleaned forecast with Total_Revenue
SalesBudget(file) ==
    Map(clean_currency_columns(file, {"Sales_Units", "Selling_Price"}), WithRevenue)

RowsOfMonth(df, m) == LET InMonth(r) == r.Month = m IN SelectSeq(df, InMonth)

MonthTotals(df_sales, months) ==
    [j \in 1..Len(months) |->
        [Month |-> months[j],
         Total_Revenue |->
             SumSeq(Column(RowsOfMonth(df_sales, months[j]), "Total_Revenue"))]]

\* groupby('Month', sort=False)['Total_Revenue'].sum().reset_index()
MonthlyRevenue(df_sales) == MonthTotals(df_sales, Unique(Column(df_sales, "Month")))

\* shift(lag) without fillna(0)
ShiftWithoutFill(col, lag) ==
    [t \in 1..Len(col) |-> IF t - lag >= 1 THEN col[t - lag] ELSE NaN]

\* Series.shift(lag).fillna(0)
Shift(col, lag) ==
    [t \in 1..Len(col) |-> fillna0(IF t - lag >= 1 THEN col[t - lag] ELSE NaN)]

\* the column Total_Revenue.shift(lag).fillna(0) * (pct / 100) of one bucket
CollectionColumn(rev, item) ==
    Map(Shift(rev, item.month_lag), LAMBDA x : Mul(x, Num(item.pct, 100)))

\* the credit share taken for the cash share
CashInflowOfCreditShare(rev, cash) == Map(rev, LAMBDA x : Mul(x, Num(100 - cash, 100)))

\* Total_Revenue * (cash_pct / 100)
CashInflowImmediate(rev, cash) == Map(rev, LAMBDA x : Mul(x, Num(cash, 100)))

\* total_collected_col += column, over the columns in order
RECURSIVE AddAll(_, _)
AddAll(acc, cols) ==
    IF cols = <<>> THEN acc ELSE AddAll(Add(acc, Head(cols)), Tail(cols))

\* the position of the last bucket of the configuration with lag l
LastWithLag(config, l) ==
    CHOOSE k \in 1..Len(config) :
        /\ config[k].month_lag = l
        /\ \A j \in (k + 1)..Len(config) : config[j].month_lag # l

\* row t of df_collections; the columns named Collection_M<lag> are the
\* field Collection_M, indexed by lag
CollectionRow(monthly_rev, imm, cols, config, t) ==
    [Month |-> monthly_rev[t].Month,
     Total_Revenue |-> monthly_rev[t].Total_Revenue,
     Cash_Inflow_Immediate |-> imm[t],
     Collection_M |->
         [l \in {config[k].month_lag : k \in 1..Len(config)} |->
             cols[LastWithLag(config, l)][t]],
     Total_Cash_Collected |->
         AddAll(imm[t], [k \in 1..Len(config) |-> cols[k][t]])]

CollectionRows(monthly_rev, imm, cols, config) ==
    [t \in 1..Len(monthly_rev) |-> CollectionRow(monthly_rev, imm, cols, config, t)]

CollectionSchedule(monthly_rev, rev, cash, config) ==
    CollectionRows(monthly_rev, CashInflowImmediate(rev, cash),
                   [k \in 1..Len(config) |-> CollectionColumn(rev, config[k])],
                   config)

RevenueSchedule(monthly_rev, cash, config) ==
    CollectionSchedule(monthly_rev, Column(monthly_rev, "Total_Revenue"), cash, config)

\* df_collections (monthly_rev with the cash and collection columns)
Collections(df_sales, cash, config) ==
    RevenueSchedule(MonthlyRevenue(df_sales), cash, config)

\* Step 1 dropping df_sales when no forecast is uploaded
Step1Clearing(s, sales, cash, config) ==
    IF sales # <<>>
    THEN Put(Put(s, "df_sales", SalesBudget(sales)),
             "df_collections", Collections(SalesBudget(sales), cash, config))
    ELSE [k \in DOMAIN s \ {"df_sales"} |-> s[k]]

StoreSales(s, df_sales, cash, config) ==
    Put(Put(s, "df_sales", df_sales),
        "df_collections", Collections(df_sales, cash, config))

Step1(s, sales, cash, config) ==
    IF sales # <<>> THEN StoreSales(s, SalesBudget(sales), cash, config) ELSE s

\* ------------------------------------------------------------------------
\* Step 2: Production budget
\* ------------------------------------------------------------------------
NoInventory == [Opening_Stock |-> NaN, Desired_Closing |-> NaN]

\* production clamped at zero
WithProductionClamped(r) ==
    r @@ [Production_Units |->
             IF IsNaN(Sub(Add(r.Sales_Units, r.Desired_Closing), r.Opening_Stock))
                \/ Sub(Add(r.Sales_Units, r.Desired_Closing), r.Opening_Stock)[1] >= 0
             THEN Sub(Add(r.Sales_Units, r.Desired_Closing), r.Opening_Stock)
             ELSE Whole(0)]

\* Production_Units = Sales_Units + Desired_Closing - Opening_Stock
WithProduction(r) ==
    r @@ [Production_Units |->
             Sub(Add(r.Sales_Units, r.Desired_Closing), r.Opening_Stock)]

ProductionBudget(df_sales, inv) ==
    Map(LeftMerge(df_sales,
                  clean_currency_columns(inv, {"Opening_Stock", "Desired_Closing"}),
                  {"Month", "Product"}, NoInventory),
        WithProduction)

Step2(s, inv) ==
    IF Has(s, "df_sales") /\ inv # <<>>
    THEN Put(s, "df_production", ProductionBudget(s.df_sales, inv))
    ELSE s

\* ------------------------------------------------------------------------
\* Step 3: Purchase budget
\* ------------------------------------------------------------------------
BomRow(p) ==
    [Product |-> p, Material |-> "Steel",
     Qty_Per_Unit |-> Whole(2), Cost_Per_Mat |-> Whole(10)]

BomOf(prods) ==
    IF Len(prods) > 0 THEN Map(prods, BomRow) ELSE <<BomRow("Example")>>

\* the table the BOM editor starts from
DefaultBom(df_production) == BomOf(Unique(Column(df_production, "Product")))

NoBom == [Material |-> "NaN", Qty_Per_Unit |-> NaN, Cost_Per_Mat |-> NaN]

WithNeeded(r) == r @@ [Total_Mat_Needed |-> Mul(r.Production_Units, r.Qty_Per_Unit)]

WithMatCost(r) == r @@ [Total_Mat_Cost |-> Mul(r.Total_Mat_Needed, r.Cost_Per_Mat)]

MaterialBudget(df_production, bom) ==
    Map(Map(LeftMerge(df_production, bom, {"Product"}, NoBom), WithNeeded),
        WithMatCost)

Step3(s, bom, btn) ==
    IF Has(s, "df_production") /\ btn = "materials"
    THEN Put(s, "df_materials", MaterialBudget(s.df_production, bom))
    ELSE s

\* ------------------------------------------------------------------------
\* Step 4: Labor and overheads
\* ------------------------------------------------------------------------
DefaultRate == [Std_Hours_Per_Unit |-> Whole(2), Hourly_Wage_Rate |-> Whole(15)]

\* the rate cells of the labor editor: one row per unique product; a row
\* keeps the cells typed into it, a new row shows the defaults
EditorCells(prods, editor) ==
    [i \in 1..Len(prods) |-> IF i <= Len(editor) THEN editor[i] ELSE DefaultRate]

RateRows(prods, cells) ==
    [i \in 1..Len(prods) |-> [Product |-> prods[i]] @@ cells[i]]

\* edited_labor_rates
LaborRates(df_production, cells) ==
    RateRows(Unique(Column(df_production, "Product")), cells)

NoRate == [Std_Hours_Per_Unit |-> NaN, Hourly_Wage_Rate |-> NaN]

WithHours(r) ==
    r @@ [Total_Labor_Hours |-> Mul(r.Production_Units, r.Std_Hours_Per_Unit)]

WithLaborCost(r) ==
    r @@ [Total_Labor_Cost |-> Mul(r.Total_Labor_Hours, r.Hourly_Wage_Rate)]

\* fix_oh / num_records if num_records > 0 else 0
AllocatedFixedOh(foh, num_records) ==
    IF num_records > 0 THEN Num(foh, num_records) ELSE Whole(0)

OverheadColumns(df_ops, voh, fixed) ==
    Map(df_ops,
        LAMBDA r : r @@ [Total_Var_OH |-> Mul(r.Production_Units, Whole(voh)),
                         Allocated_Fixed_OH |-> fixed,
                         Total_OH_Cost |->
                             Add(Mul(r.Production_Units, Whole(voh)), fixed)])

Overheads(df_ops, voh, foh) ==
    OverheadColumns(df_ops, voh, AllocatedFixedOh(foh, Len(df_ops)))

LaborOverheadBudget(df_production, rates, voh, foh) ==
    Overheads(Map(Map(LeftMerge(df_production, rates, {"Product"}, NoRate),
                      WithHours),
                  WithLaborCost),
              voh, foh)

Step4(s, cells, voh, foh, btn) ==
    IF Has(s, "df_production") /\ btn = "labor"
    THEN Put(s, "df_ops",
             LaborOverheadBudget(s.df_production,
                                 LaborRates(s.df_production, cells), voh, foh))
    ELSE s

\* ------------------------------------------------------------------------
\* Step 5: Master summary
\* ------------------------------------------------------------------------
\* the labels of the model in the alphabetical order groupby sorts by
AlphaOrder == <<"Apr", "Aug", "Feb", "Jan", "Jul", "Jun", "Mar", "May",
                "Widget A", "Widget B">>

Rank(x) == CHOOSE i \in 1..Len(AlphaOrder) : AlphaOrder[i] = x

KeyBefore(a, b) ==
    \/ Rank(a[1]) < Rank(b[1])
    \/ Rank(a[1]) = Rank(b[1]) /\ Rank(a[2]) < Rank(b[2])

MinKey(S) == CHOOSE a \in S : \A b \in S \ {a} : KeyBefore(a, b)

RECURSIVE SortKeys(_)
SortFrom(S, first) == <<first>> \o SortKeys(S \ {first})

SortKeys(S) == IF S = {} THEN <<>> ELSE SortFrom(S, MinKey(S))

RowsOfKey(df, key) ==
    LET InGroup(r) == r.Month = key[1] /\ r.Product = key[2] IN SelectSeq(df, InGroup)

\* the cost of the first material of a group taken for the group's sum
GroupFirsts(df_materials, keys) ==
    [j \in 1..Len(keys) |->
        [Month |-> keys[j][1], Product |-> keys[j][2],
         Total_Mat_Cost |-> fillna0(RowsOfKey(df_materials, keys[j])[1].Total_Mat_Cost)]]

GroupSums(df_materials, keys) ==
    [j \in 1..Len(keys) |->
        [Month |-> keys[j][1], Product |-> keys[j][2],
         Total_Mat_Cost |->
             SumSeq(Column(RowsOfKey(df_materials, keys[j]), "Total_Mat_Cost"))]]

\* groupby(['Month', 'Product'])['Total_Mat_Cost'].sum().reset_index()
MatSum(df_materials) ==
    GroupSums(df_materials,
              SortKeys({<<df_materials[i].Month, df_materials[i].Product>> :
                           i \in 1..Len(df_materials)}))

\* df_ops[['Month', 'Product', 'Total_Labor_Cost', 'Total_OH_Cost']]
OpsSum(df_ops) ==
    Map(df_ops,
        LAMBDA r : [Month |-> r.Month, Product |-> r.Product,
                    Total_Labor_Cost |-> r.Total_Labor_Cost,
                    Total_OH_Cost |-> r.Total_OH_Cost])

WithTotalCost(r) ==
    r @@ [Total_Production_Cost |->
             Add(Add(r.Total_Mat_Cost, r.Total_Labor_Cost), r.Total_OH_Cost)]

\* the consolidated cost sheet
CostSheet(df_materials, df_ops) ==
    Map(InnerMerge(MatSum(df_materials), OpsSum(df_ops), {"Month", "Product"}),
        WithTotalCost)

\* the guard of the master summary tab
SummaryReady(s) == \A k \in {"df_materials", "df_ops"} : Has(s, k)

\* an absent stage taken for an empty table
MasterSummaryOfAbsent(s) ==
    [sheet |-> CostSheet(IF Has(s, "df_materials") THEN s.df_materials ELSE <<>>,
                         IF Has(s, "df_ops") THEN s.df_ops ELSE <<>>),
     info |-> FALSE]

\* what the master summary tab renders: the cost sheet, or the info message
MasterSummary(s) ==
    IF SummaryReady(s)
    THEN [sheet |-> CostSheet(s.df_materials, s.df_ops), info |-> FALSE]
    ELSE [sheet |-> <<>>, info |-> TRUE]

\* the columns of the tables a run renders with st.dataframe (the tables of
\* steps 3 and 4 are rendered in the run of their button)
RenderedColumns(s, sales, inv) ==
    UNION {
        IF sales # <<>> THEN DOMAIN s.df_collections[1] ELSE {},
        IF Has(s, "df_sales") /\ inv # <<>>
        THEN {"Month", "Product", "Sales_Units", "Opening_Stock",
              "Desired_Closing", "Production_Units"}
        ELSE {},
        IF Has(s, "df_production")
        THEN {"Month", "Product", "Material", "Total_Mat_Cost", "Production_Units",
              "Std_Hours_Per_Unit", "Hourly_Wage_Rate", "Total_Labor_Cost"}
        ELSE {},
        IF SummaryReady(s)
        THEN {"Month", "Product", "Total_Mat_Cost", "Total_Labor_Cost",
              "Total_OH_Cost", "Total_Production_Cost"}
        ELSE {}}

\* ------------------------------------------------------------------------
\* Inputs the user chooses from
\* ------------------------------------------------------------------------
Modules == {"1. CVP Analysis", "2. Master Budget (End-to-End)",
            "3. ABC Costing", "4. Transfer Pricing"}

Master == "2. Master Budget (End-to-End)"

\* columns of the downloadable templates
MonthNames == <<"Jan", "Feb", "Mar", "Apr", "May", "Jun", "Jul", "Aug">>
TemplateUnits == <<1000, 1200, 1500, 1300, 1600, 1800, 2000, 2200>>
TemplateOpening == <<100, 150, 200, 220, 250, 270, 290, 310>>
TemplateClosing == <<150, 200, 220, 250, 270, 290, 310, 330>>
\* desired closing stock of the worked example (250 in the third month)
ExampleClosing == <<150, 200, 250>> \o SubSeq(TemplateClosing, 4, 8)
TemplatePrice == 50

SalesRow(m, p, u, price) ==
    [Month |-> m, Product |-> p, Sales_Units |-> u, Selling_Price |-> price]

InvRow(m, p, o, c) ==
    [Month |-> m, Product |-> p, Opening_Stock |-> o, Desired_Closing |-> c]

\* the template forecast, cut to MaxMonths months
ForecastTemplate ==
    [i \in 1..MaxMonths |->
        SalesRow(MonthNames[i], "Widget A", Whole(TemplateUnits[i]), Whole(TemplatePrice))]

\* a single sales pulse of revenue 100000 in month t
ForecastPulse(t) ==
    [i \in 1..MaxMonths |->
        SalesRow(MonthNames[i], "Widget A",
                 Whole(IF i = t THEN 2000 ELSE 0), Whole(TemplatePrice))]

\* two products sharing the months, one cell left blank in the upload
ForecastTwoProducts ==
    <<SalesRow("Jan", "Widget A", Whole(1000), Whole(50)),
      SalesRow("Jan", "Widget B", Whole(300), Whole(20)),
      SalesRow("Feb", "Widget A", Whole(1200), Whole(50)),
      SalesRow("Feb", "Widget B", NaN, Whole(20))>>

PulseForecasts == {ForecastPulse(t) : t \in 1..MaxMonths}

ChainForecasts == {ForecastTemplate, ForecastTwoProducts}

\* the inventory targets of the worked example (template opening stock)
InventoryExample ==
    [i \in 1..MaxMonths |->
        InvRow(MonthNames[i], "Widget A",
               Whole(TemplateOpening[i]), Whole(ExampleClosing[i]))]

\* excess opening stock, a blank cell, and no row for Feb
InventorySurplus ==
    <<InvRow("Jan", "Widget A", Whole(2500), Whole(100)),
      InvRow("Jan", "Widget B", NaN, Whole(50))>>

Inventories == {InventoryExample, InventorySurplus}

CashPcts == {0, 20, 100}
LagPcts == {0, 40, 60, 100}

\* an edit of the BOM table: a second material is added for the first
\* product and the rows of the other products are deleted
EditedBom(df_production) ==
    LET d == DefaultBom(df_production)
    IN  <<d[1], [Product |-> d[1].Product, Material |-> "Paint",
                 Qty_Per_Unit |-> Whole(1), Cost_Per_Mat |-> Whole(4)]>>

BomEditKinds == {"reset", "edit"}

BomEdit(df_production, kind) ==
    IF kind = "edit" THEN EditedBom(df_production) ELSE DefaultBom(df_production)

Rates == {DefaultRate, [Std_Hours_Per_Unit |-> Whole(3), Hourly_Wage_Rate |-> Whole(16)]}

\* <<variable overhead rate, fixed overhead per month>>
OverheadSettings == {<<5, 10000>>, <<6, 12500>>}

DefaultCashPct == 20
DefaultVarOh == 5
DefaultFixOh == 10000

\* ------------------------------------------------------------------------
\* One execution of the script
\* ------------------------------------------------------------------------
\* the BOM editor of this run: it starts from the default table, and starts
\* again from it when the products of the production table change
RenderBom(old, s, bom) ==
    IF ~Has(s, "df_production") THEN <<>>
    ELSE IF bom = <<>> \/ ~Has(old, "df_production")
    THEN DefaultBom(s.df_production)
    ELSE IF DefaultBom(old.df_production) # DefaultBom(s.df_production)
    THEN DefaultBom(s.df_production)
    ELSE bom

\* the labor editor of this run
RenderLaborEditor(s, cells) ==
    IF Has(s, "df_production")
    THEN EditorCells(Unique(Column(s.df_production, "Product")), cells)
    ELSE <<>>

\* the two overhead inputs of this run
RenderOverheads(s, voh, foh) ==
    IF Has(s, "df_production") THEN <<voh, foh>> ELSE <<DefaultVarOh, DefaultFixOh>>

\* The script runs with the widget values given (the user's change already
\* applied) and the button btn pressed ("none" when the rerun was caused by
\* another widget).  Widgets that a run does not render lose their state.
Rerun(mod, sales, cash, lags, inv, bom, editor, voh, foh, btn) ==
    IF mod # Master
    THEN /\ selected_module' = mod
         /\ uploaded_sales' = <<>>
         /\ cash_pct' = DefaultCashPct
         /\ lag_input' = <<>>
         /\ uploaded_inv' = <<>>
         /\ edited_bom' = <<>>
         /\ labor_editor' = <<>>
         /\ var_oh' = DefaultVarOh
         /\ fix_oh' = DefaultFixOh
         /\ session_state' = session_state
    ELSE \E s0 \in {NumLags(session_state, cash, btn)} :
         \E shown_lags \in {RenderLagInputs(s0, cash, lags)} :
         \E s1 \in {Step1(s0, sales, cash, CreditConfig(cash, shown_lags))} :
         \E shown_inv \in {IF Has(s1, "df_sales") THEN inv ELSE <<>>} :
         \E s2 \in {Step2(s1, shown_inv)} :
         \E shown_bom \in {RenderBom(session_state, s2, bom)} :
         \E shown_cells \in {RenderLaborEditor(s2, editor)} :
         \E shown_oh \in {RenderOverheads(s2, voh, foh)} :
             /\ selected_module' = mod
             /\ uploaded_sales' = sales
             /\ cash_pct' = cash
             /\ lag_input' = shown_lags
             /\ uploaded_inv' = shown_inv
             /\ edited_bom' = shown_bom
             /\ labor_editor' = shown_cells
             /\ var_oh' = shown_oh[1]
             /\ fix_oh' = shown_oh[2]
             /\ session_state' =
                    Step4(Step3(s2, shown_bom, btn),
                          shown_cells, shown_oh[1], shown_oh[2], btn)

\* the run caused by changing a widget other than a button
Refresh(sales, cash, lags, inv, bom, editor, voh, foh) ==
    Rerun(Master, sales, cash, lags, inv, bom, editor, voh, foh, "none")

\* the run caused by pressing a button
Press(btn) ==
    Rerun(Master, uploaded_sales, cash_pct, lag_input, uploaded_inv,
          edited_bom, labor_editor, var_oh, fix_oh, btn)

\* ------------------------------------------------------------------------
\* The state machine
\* ------------------------------------------------------------------------
Init ==
    /\ selected_module = "1. CVP Analysis"
    /\ uploaded_sales = <<>>
    /\ cash_pct = DefaultCashPct
    /\ lag_input = <<>>
    /\ uploaded_inv = <<>>
    /\ edited_bom = <<>>
    /\ labor_editor = <<>>
    /\ var_oh = DefaultVarOh
    /\ fix_oh = DefaultFixOh
    /\ session_state = EmptySession

InMaster == selected_module = Master

SelectModule(m) ==
    /\ m # selected_module
    /\ Rerun(m, uploaded_sales, cash_pct, lag_input, uploaded_inv,
             edited_bom, labor_editor, var_oh, fix_oh, "none")

UploadSales(f) ==
    /\ InMaster
    /\ f # uploaded_sales
    /\ Refresh(f, cash_pct, lag_input, uploaded_inv, edited_bom, labor_editor,
               var_oh, fix_oh)

RemoveSales ==
    /\ InMaster
    /\ uploaded_sales # <<>>
    /\ Refresh(<<>>, cash_pct, lag_input, uploaded_inv, edited_bom, labor_editor,
               var_oh, fix_oh)

SetCashPct(c) ==
    /\ InMaster
    /\ c # cash_pct
    /\ Refresh(uploaded_sales, c, lag_input, uploaded_inv, edited_bom,
               labor_editor, var_oh, fix_oh)

ClickAddMonth ==
    /\ InMaster
    /\ cash_pct < 100
    /\ session_state.num_lags < MaxLags
    /\ Press("add")

ClickRemove ==
    /\ InMaster
    /\ cash_pct < 100
    /\ Press("remove")

SetLagInput(i, v) ==
    /\ InMaster
    /\ i \in 1..Len(lag_input)
    /\ v # lag_input[i]
    /\ Refresh(uploaded_sales, cash_pct, [lag_input EXCEPT ![i] = v],
               uploaded_inv, edited_bom, labor_editor, var_oh, fix_oh)

UploadInventory(f) ==
    /\ InMaster
    /\ Has(session_state, "df_sales")
    /\ f # uploaded_inv
    /\ Refresh(uploaded_sales, cash_pct, lag_input, f, edited_bom, labor_editor,
               var_oh, fix_oh)

RemoveInventory ==
    /\ InMaster
    /\ uploaded_inv # <<>>
    /\ Refresh(uploaded_sales, cash_pct, lag_input, <<>>, edited_bom,
               labor_editor, var_oh, fix_oh)

EditBom(kind) ==
    /\ InMaster
    /\ Has(session_state, "df_production")
    /\ LET b == BomEdit(session_state.df_production, kind)
       IN  /\ b # edited_bom
           /\ Refresh(uploaded_sales, cash_pct, lag_input, uploaded_inv, b,
                      labor_editor, var_oh, fix_oh)

ClickCalculateMaterials ==
    /\ InMaster
    /\ Has(session_state, "df_production")
    /\ Press("materials")

EditLaborRates(i, r) ==
    /\ InMaster
    /\ i \in 1..Len(labor_editor)
    /\ r # labor_editor[i]
    /\ Refresh(uploaded_sales, cash_pct, lag_input, uploaded_inv, edited_bom,
               [labor_editor EXCEPT ![i] = r], var_oh, fix_oh)

SetOverheads(voh, foh) ==
    /\ InMaster
    /\ Has(session_state, "df_production")
    /\ <<voh, foh>> # <<var_oh, fix_oh>>
    /\ Refresh(uploaded_sales, cash_pct, lag_input, uploaded_inv, edited_bom,
               labor_editor, voh, foh)

ClickCalculateLabor ==
    /\ InMaster
    /\ Has(session_state, "df_production")
    /\ Press("labor")

\* Sales and collections: the forecast, the collection policy
NextSales ==
    \/ SelectModule(Master)
    \/ \E f \in PulseForecasts \cup {ForecastTwoProducts} : UploadSales(f)
    \/ \E c \in CashPcts : SetCashPct(c)
    \/ ClickAddMonth
    \/ ClickRemove
    \/ \E i \in 1..MaxLags, v \in LagPcts : SetLagInput(i, v)

SpecSales == Init /\ [][NextSales]_vars

\* The budget chain with its data: forecasts and inventory targets uploaded
\* and replaced, the BOM and the rates edited, the two Calculate buttons
Next ==
    \/ SelectModule(Master)
    \/ \E f \in ChainForecasts : UploadSales(f)
    \/ \E f \in Inventories : UploadInventory(f)
    \/ \E kind \in BomEditKinds : EditBom(kind)
    \/ ClickCalculateMaterials
    \/ \E r \in Rates : EditLaborRates(1, r)
    \/ \E o \in OverheadSettings : SetOverheads(o[1], o[2])
    \/ ClickCalculateLabor

Spec == Init /\ [][Next]_vars

\* The stages and the navigation: modules left and entered again, files
\* uploaded and removed, the buttons pressed, on one forecast and one
\* inventory table
NextStages ==
    \/ \E m \in Modules : SelectModule(m)
    \/ UploadSales(ForecastTemplate)
    \/ RemoveSales
    \/ SetCashPct(100)
    \/ SetCashPct(DefaultCashPct)
    \/ UploadInventory(InventoryExample)
    \/ RemoveInventory
    \/ EditBom("edit")
    \/ ClickCalculateMaterials
    \/ ClickCalculateLabor

SpecStages == Init /\ [][NextStages]_vars

\* ------------------------------------------------------------------------
\* Properties of the sales budget and the collection schedule (SpecSales)
\* ------------------------------------------------------------------------
\* the collection schedule is computed and rendered in the current run
ScheduleShown == InMaster /\ uploaded_sales # <<>>

\* monthly revenue of row t of the schedule; zero before the first month
RevenueAt(t) ==
    IF t >= 1 THEN session_state.df_collections[t].Total_Revenue ELSE Whole(0)

\* p percent of x
Percent(x, p) == Mul(x, Num(p, 100))

\* credit base of row t: revenue x (1 - cash_pct)
CreditBaseAt(t) == Percent(RevenueAt(t), 100 - cash_pct)

\* the sum of Bucket(1), ..., Bucket(n)
SumOfBuckets(n, Bucket(_)) ==
    LET partial[k \in 0..n] ==
            IF k = 0 THEN Whole(0) ELSE Add(partial[k - 1], Bucket(k))
    IN  partial[n]

TotalCollected == SumSeq(Column(session_state.df_collections, "Total_Cash_Collected"))

C6_ReportedNotRenormalized ==
    InMaster =>
        /\ cash_pct + SumInts(lag_input) < 100
               => Validation(cash_pct, CreditConfig(cash_pct, lag_input)) = "warning"
        /\ cash_pct + SumInts(lag_input) > 100
               => Validation(cash_pct, CreditConfig(cash_pct, lag_input)) = "error"
        /\ ScheduleShown =>
               \A t \in 1..Len(session_state.df_collections) :
                   LET row == session_state.df_collections[t]
                   IN  /\ row.Cash_Inflow_Immediate = Percent(row.Total_Revenue, cash_pct)
                       /\ \A i \in 1..Len(lag_input) :
                              row.Collection_M[i] =
                                  Percent(RevenueAt(t - i), lag_input[i])

\* the error is shown for 20% + 100% and the bucket still collects 100%
C6_Witness ==
    /\ ScheduleShown
    /\ cash_pct = 20
    /\ lag_input = <<100>>
    /\ Validation(cash_pct, CreditConfig(cash_pct, lag_input)) = "error"
    /\ uploaded_sales = ForecastPulse(1)
    /\ session_state.df_collections[2].Collection_M[1] = Whole(100000)

\* C10: num_lags never falls below 1; while cash_pct < 100 the configuration
\* has exactly num_lags buckets with the lags 1..num_lags in increasing
\* order; with cash_pct = 100 the configuration is empty and every month's
\* Total_Cash_Collected equals its Total_Revenue.
C10_LagBuckets ==
    /\ Has(session_state, "num_lags") => session_state.num_lags >= 1
    /\ (InMaster /\ cash_pct < 100) =>
           LET config == CreditConfig(cash_pct, lag_input)
           IN  /\ Len(config) = session_state.num_lags
               /\ \A i \in 1..Len(config) : config[i].month_lag = i
    /\ (InMaster /\ cash_pct = 100) =>
           /\ CreditConfig(cash_pct, lag_input) = <<>>
           /\ ScheduleShown =>
                  \A t \in 1..Len(session_state.df_collections) :
                      session_state.df_collections[t].Total_Cash_Collected =
                          session_state.df_collections[t].Total_Revenue

\* all sales are cash sales after buckets were added: receipts equal revenue
C10_Witness ==
    /\ ScheduleShown
    /\ cash_pct = 100
    /\ session_state.num_lags = 2
    /\ uploaded_sales = ForecastPulse(1)
    /\ session_state.df_collections[1].Total_Cash_Collected = Whole(100000)

\* ------------------------------------------------------------------------
\* Properties of the budget chain (Spec, SpecStages)
\* ------------------------------------------------------------------------
\* the whole number in a cell of an uploaded table; a blank cell counts 0
Units(x) == IF IsNaN(x) THEN 0 ELSE x[1]

\* the production table is computed in the current run
ProductionShown == InMaster /\ uploaded_sales # <<>> /\ uploaded_inv # <<>>

\* C3 as stated: once the chain is complete the program renders a cash budget
\* with the columns Opening_Balance, Net_Flow and Closing_Balance (whose rows
\* are the running prefix sums over the months).
C3_CashBudgetRendered ==
    (InMaster /\ uploaded_sales # <<>> /\ SummaryReady(session_state)) =>
        {"Opening_Balance", "Net_Flow", "Closing_Balance"}
            \subseteq RenderedColumns(session_state, uploaded_sales, uploaded_inv)

\* C4: every forecast row with a matching inventory row has a production row,
\* and Production_Units of every production row of that (Month, Product) is
\* Sales_Units + Desired_Closing - Opening_Stock, negative values included;
\* the template forecast with the example targets gives 1050, 1250, 1550.
C4_ProductionUnits ==
    ProductionShown =>
        /\ \A i \in 1..Len(uploaded_sales), j \in 1..Len(uploaded_inv) :
               (/\ uploaded_sales[i].Month = uploaded_inv[j].Month
                /\ uploaded_sales[i].Product = uploaded_inv[j].Product)
               => LET Keyed(r) == /\ r.Month = uploaded_sales[i].Month
                                  /\ r.Product = uploaded_sales[i].Product
                      rows == SelectSeq(session_state.df_production, Keyed)
                  IN  /\ rows # <<>>
                      /\ \A k \in 1..Len(rows) :
                             rows[k].Production_Units =
                                 Whole(Units(uploaded_sales[i].Sales_Units)
                                       + Units(uploaded_inv[j].Desired_Closing)
                                       - Units(uploaded_inv[j].Opening_Stock))
        /\ (uploaded_sales = ForecastTemplate /\ uploaded_inv = InventoryExample)
               => SubSeq(Column(session_state.df_production, "Production_Units"), 1, 3)
                      = <<Whole(1050), Whole(1250), Whole(1550)>>

\* opening stock above sales plus target: the production is negative
C4_Witness ==
    /\ ProductionShown
    /\ uploaded_inv = InventorySurplus
    /\ \E k \in 1..Len(session_state.df_production) :
           /\ session_state.df_production[k].Sales_Units = Whole(1000)
           /\ session_state.df_production[k].Opening_Stock = Whole(2500)
           /\ session_state.df_production[k].Production_Units = Whole(-1400)

\* the columns a production row carries
ProductionColumns ==
    {"Month", "Product", "Sales_Units", "Selling_Price", "Total_Revenue",
     "Opening_Stock", "Desired_Closing", "Production_Units"}

\* the production rows a derived table was computed from
ProductionUnder(df) ==
    {[c \in ProductionColumns |-> df[i][c]] : i \in 1..Len(df)}

\* C7 as stated: whenever the master summary shows a cost sheet, the
\* materials table and the labor/overhead table were both computed from the
\* production table the session holds.
C7_SummaryOfCurrentProduction ==
    (InMaster /\ SummaryReady(session_state)) =>
        /\ ProductionUnder(session_state.df_materials)
               = ProductionUnder(session_state.df_production)
        /\ ProductionUnder(session_state.df_ops)
               = ProductionUnder(session_state.df_production)

\* the sum of Total_Mat_Cost over the materials of (Month m, Product p)
MaterialCostOf(m, p) ==
    LET df == session_state.df_materials
        partial[i \in 0..Len(df)] ==
            IF i = 0 THEN Whole(0)
            ELSE IF df[i].Month = m /\ df[i].Product = p
                    /\ ~IsNaN(df[i].Total_Mat_Cost)
                 THEN Add(partial[i - 1], df[i].Total_Mat_Cost)
                 ELSE partial[i - 1]
    IN  partial[Len(df)]

\* C8: for every labor/overhead row whose (Month, Product) has material rows,
\* the cost sheet has a row of that key with Total_Production_Cost = (sum of
\* Total_Mat_Cost over the key's materials) + Total_Labor_Cost + Total_OH_Cost.
C8_TotalProductionCost ==
    (InMaster /\ SummaryReady(session_state)) =>
        \A i \in 1..Len(session_state.df_ops) :
            LET o == session_state.df_ops[i]
                sheet == MasterSummary(session_state).sheet
            IN  (\E j \in 1..Len(session_state.df_materials) :
                     /\ session_state.df_materials[j].Month = o.Month
                     /\ session_state.df_materials[j].Product = o.Product)
                => \E k \in 1..Len(sheet) :
                       /\ sheet[k].Month = o.Month
                       /\ sheet[k].Product = o.Product
                       /\ sheet[k].Total_Production_Cost =
                              Add(Add(MaterialCostOf(o.Month, o.Product),
                                      o.Total_Labor_Cost),
                                  o.Total_OH_Cost)

\* template forecast, example targets, steel and paint: January costs
\* 1050 x 24 of materials, 31500 of labor and 5250 + 10000/3 of overhead
C8_Witness ==
    /\ InMaster
    /\ SummaryReady(session_state)
    /\ \E k \in 1..Len(MasterSummary(session_state).sheet) :
           LET row == MasterSummary(session_state).sheet[k]
           IN  /\ row.Month = "Jan"
               /\ row.Total_Mat_Cost = Whole(25200)
               /\ row.Total_Labor_Cost = Whole(31500)
               /\ row.Total_Production_Cost = Add(Whole(61950), Num(10000, MaxMonths))

\* a stored table with the column col
Computed(col) ==
    \E k \in DOMAIN session_state \ {"num_lags"} :
        /\ session_state[k] # <<>>
        /\ col \in DOMAIN session_state[k][1]

\* C5: the master summary shows a cost sheet only when the material, the
\* labor and the overhead costs have all been computed; when any of them is
\* missing it shows the message and no row.
C5_SummaryNeedsAllStages ==
    InMaster =>
        /\ ~MasterSummary(session_state).info
               => /\ Computed("Total_Mat_Cost")
                  /\ Computed("Total_Labor_Cost")
                  /\ Computed("Total_OH_Cost")
        /\ ~(/\ Computed("Total_Mat_Cost")
             /\ Computed("Total_Labor_Cost")
             /\ Computed("Total_OH_Cost"))
               => /\ MasterSummary(session_state).info
                  /\ MasterSummary(session_state).sheet = <<>>

\* materials are calculated, labor and overhead are not: the message is shown
C5_Witness ==
    /\ InMaster
    /\ Computed("Total_Mat_Cost")
    /\ ~Computed("Total_Labor_Cost")
    /\ MasterSummary(session_state).info
    /\ MasterSummary(session_state).sheet = <<>>

\* C9: a stored production table implies a stored sales table, and a stored
\* materials or labor/overhead table implies a stored production table.
C9_StageGating ==
    /\ Has(session_state, "df_production") => Has(session_state, "df_sales")
    /\ (Has(session_state, "df_materials") \/ Has(session_state, "df_ops"))
           => Has(session_state, "df_production")

\* every stage is stored and the forecast has been removed from the uploader
C9_Witness ==
    /\ InMaster
    /\ uploaded_sales = <<>>
    /\ \A k \in {"df_sales", "df_production", "df_materials", "df_ops"} :
           Has(session_state, k)

====
